---- MODULE Spec2Model ----
(***************************************************************************)
(* Model of the sitepanda crawl engine (Crawler.Crawl, fetchPageHTML,      *)
(* extractAndFilterLinks, normalizeURLtoString, shouldProcessContent).     *)
(*                                                                         *)
(* A URL is a record of the fields of Go's url.URL; a path is a sequence   *)
(* of one-character tokens ("/" is the separator).  A string handed to     *)
(* normalizeURLtoString is a record [kind, u]: kind "blank" is an empty or *)
(* whitespace-only string, "bad" a string url.Parse rejects, "url" a       *)
(* string that parses to u.                                                *)
(***************************************************************************)
EXTENDS Integers, Sequences, FiniteSets, TLC

\* ------------------------------------------------------------------ bounds
MaxLimit == 2
MaxListLen == 2
MaxSignals == 2
MaxPolls == 2

\* --------------------------------------------------------------- constants
maxRetries == 1

\* -------------------------------------------------------------------- URLs
MkURL(s, h, p, q, f) == [scheme |-> s, host |-> h, path |-> p, query |-> q, frag |-> f]

Str(u) == [kind |-> "url", u |-> u]

NoURL == MkURL("", "", <<>>, "", "")

Last(s) == s[Len(s)]

Front(s) == SubSeq(s, 1, Len(s) - 1)

\* normalizeURLtoString: result [ok, url]; url is the parsed form of the
\* returned string.
normalizeURLtoString(raw) ==
  IF raw.kind = "blank" THEN [ok |-> FALSE, url |-> NoURL]
  ELSE IF raw.kind = "bad" THEN [ok |-> FALSE, url |-> NoURL]
  ELSE LET parsed == raw.u IN
    IF parsed.scheme = "" /\ parsed.host = "" /\ parsed.path = <<>>
         /\ parsed.query = "" /\ parsed.frag # ""
    THEN [ok |-> FALSE, url |-> NoURL]
    ELSE
      LET p1 == IF parsed.scheme = "" /\ parsed.host # ""
                THEN \* "http://" is put before a string that starts with "//"
                     MkURL("http", "", <<"/", "/", parsed.host>> \o parsed.path,
                           parsed.query, parsed.frag)
                ELSE parsed
          p2 == [p1 EXCEPT !.frag = ""]
          p3 == IF p2.host # "" /\ p2.path = <<>>
                THEN [p2 EXCEPT !.path = <<"/">>] ELSE p2
          p4 == IF Len(p3.path) > 1 /\ Last(p3.path) = "/"
                THEN [p3 EXCEPT !.path = Front(p3.path)] ELSE p3
      IN [ok |-> TRUE, url |-> p4]

\* The directory part of a base path (up to and including its last "/").
RECURSIVE DirOf(_)
DirOf(p) ==
  IF p = <<>> THEN <<"/">>
  ELSE IF Last(p) = "/" THEN p
  ELSE DirOf(Front(p))

\* pageURL.Parse(href): reference resolution against the page URL.
ResolveReference(base, ref) ==
  IF ref.scheme # "" THEN ref
  ELSE IF ref.host # "" THEN [ref EXCEPT !.scheme = base.scheme]
  ELSE IF ref.path = <<>>
       THEN [base EXCEPT !.frag = ref.frag,
                         !.query = IF ref.query # "" THEN ref.query ELSE base.query]
  ELSE IF Head(ref.path) = "/"
       THEN [base EXCEPT !.path = ref.path, !.query = ref.query, !.frag = ref.frag]
  ELSE [base EXCEPT !.path = DirOf(base.path) \o ref.path,
                    !.query = ref.query, !.frag = ref.frag]

\* glob.Compile(p, '/') and Glob.Match: "*" matches a run of non-separator
\* tokens, "**" any run of tokens, every other token matches itself.
\* Mutant: the pattern is compiled without a separator, "*" crosses "/".
RECURSIVE GlobMatch_NoSeparator(_, _)
GlobMatch_NoSeparator(p, s) ==
  IF p = <<>> THEN s = <<>>
  ELSE IF Head(p) \in {"*", "**"}
       THEN \E k \in 0..Len(s) : GlobMatch_NoSeparator(Tail(p), SubSeq(s, k + 1, Len(s)))
  ELSE s # <<>> /\ Head(s) = Head(p) /\ GlobMatch_NoSeparator(Tail(p), Tail(s))

RECURSIVE GlobMatch(_, _)
GlobMatch(p, s) ==
  IF p = <<>> THEN s = <<>>
  ELSE IF Head(p) = "**"
       THEN \E k \in 0..Len(s) : GlobMatch(Tail(p), SubSeq(s, k + 1, Len(s)))
  ELSE IF Head(p) = "*"
       THEN \E k \in 0..Len(s) :
              /\ \A i \in 1..k : s[i] # "/"
              /\ GlobMatch(Tail(p), SubSeq(s, k + 1, Len(s)))
  ELSE s # <<>> /\ Head(s) = Head(p) /\ GlobMatch(Tail(p), Tail(s))

\* The path a pattern set is matched against.
PathToMatch(u) ==
  IF u.path = <<>> THEN <<"/">>
  ELSE IF Head(u.path) # "/" THEN <<"/">> \o u.path
  ELSE u.path

MatchesAny(patterns, u) ==
  \E i \in 1..Len(patterns) : GlobMatch(patterns[i], PathToMatch(u))

\* Mutant: without patterns nothing is saved.
shouldProcessContent_EmptyRejects(patterns, pageURL) == MatchesAny(patterns, pageURL)

shouldProcessContent(patterns, pageURL) ==
  IF Len(patterns) = 0 THEN TRUE ELSE MatchesAny(patterns, pageURL)

SeqToSet(s) == {s[i] : i \in 1..Len(s)}

\* Mutant: the follow patterns are not looked at.
FollowAllowed_Pass(follow, u) == TRUE

\* The --follow-match check of a link: with patterns, one of them must match.
FollowAllowed(follow, u) == Len(follow) > 0 => MatchesAny(follow, u)

\* Mutant: the hostname of a link is not compared with the start URL's.
LinkAccepted_AnyHost(start, follow, n) ==
  /\ n.ok
  /\ n.url.scheme \in {"http", "https"}
  /\ FollowAllowed(follow, n.url)

\* The filter one a[href] passes through before it is appended to validLinks.
LinkAccepted(start, follow, n) ==
  /\ n.ok
  /\ n.url.scheme \in {"http", "https"}
  /\ n.url.host = start.host
  /\ FollowAllowed(follow, n.url)

\* extractAndFilterLinks: hrefs is the sequence of a[href] values of the
\* document, acc the validLinks built so far.
RECURSIVE FilterLinks(_, _, _, _, _)
FilterLinks(start, follow, pageURL, hrefs, acc) ==
  IF hrefs = <<>> THEN acc
  ELSE LET n == normalizeURLtoString(Str(ResolveReference(pageURL, Head(hrefs))))
           acc2 == IF LinkAccepted(start, follow, n) /\ n.url \notin SeqToSet(acc)
                   THEN Append(acc, n.url) ELSE acc
       IN FilterLinks(start, follow, pageURL, Tail(hrefs), acc2)

extractAndFilterLinks(start, follow, pageURL, htmlBody) ==
  FilterLinks(start, follow, pageURL, htmlBody, <<>>)

\* ------------------------------------------------------------- input sets
Root == <<"/">>
PathA == <<"/", "a">>
PathB == <<"/", "b">>

UrlRoot == MkURL("http", "h", Root, "", "")
UrlA == MkURL("http", "h", PathA, "", "")
UrlB == MkURL("http", "h", PathB, "", "")

\* a[href] values
RefA == MkURL("", "", <<"/", "a", "/">>, "", "")
RefAfrag == MkURL("", "", PathA, "", "s")
RefB == MkURL("", "", PathB, "", "")
RefRelB == MkURL("", "", <<"b">>, "", "")
RefRoot == MkURL("", "", Root, "", "")
RefOther == MkURL("http", "o", <<"/", "z">>, "", "")
RefFtp == MkURL("ftp", "h", PathB, "", "")
RefHttpsB == MkURL("https", "h", PathB, "", "")
RefFragOnly == MkURL("", "", <<>>, "", "s")

LinkLists ==
  { <<>>,
    <<RefA, RefAfrag>>,
    <<RefA, RefB>>,
    <<RefRoot, RefOther, RefFtp>>,
    <<RefRelB, RefHttpsB, RefFragOnly>> }

SitePages == {UrlRoot, UrlA, UrlB}

\* The inner pages link back, link out of the site, or link nowhere.
InnerLinkLists ==
  { <<>>,
    <<RefRoot, RefOther, RefFtp>>,
    <<RefRelB, RefHttpsB, RefFragOnly>> }

Sites ==
  { s \in [SitePages -> LinkLists] :
      s[UrlA] \in InnerLinkLists /\ s[UrlB] = <<RefRoot, RefOther, RefFtp>> }

\* command-line start URLs (strings)
SeedInputs == { Str(MkURL("http", "h", <<>>, "", "")),
                Str(MkURL("http", "h", <<"/", "a", "/">>, "", "f")) }

\* lines of a --url-file, trimmed and non-empty
ListInputs == { Str(UrlA),
                Str(MkURL("http", "h", <<"/", "a", "/">>, "", "")),
                Str(MkURL("http", "o", <<"/", "z">>, "", "")),
                [kind |-> "bad", u |-> NoURL] }

PatternSets == { <<>>, << <<"/", "a">> >> }

\* --match and --follow-match as given together on the command line
PatternPairs ==
  { <<m, f>> \in PatternSets \X PatternSets : m = <<>> \/ f = <<>> }


\* ------------------------------------------------------------------ state
VARIABLES
  isURLListMode,        \* Crawler.isURLListMode
  initialURLs,          \* Crawler.initialURLs (strings)
  startURL,             \* Crawler.startURL
  pageLimit,            \* Crawler.pageLimit
  matchPatterns,        \* Crawler.matchPatterns
  followMatchPatterns,  \* Crawler.followMatchPatterns
  site,                 \* the a[href] values of every page of the seed host
  pc,                   \* position of Crawl
  queue,                \* Crawl's local queue
  visited,              \* Crawler.visited
  results,              \* Crawler.results
  cur,                  \* currentURLStr
  attempt,              \* attempt of the retry loop
  fetchErr,             \* fetchErr after the retry loop
  html,                 \* htmlContent
  links,                \* links of the page still to be looked at
  cancelled,            \* rootCtx.Err() != nil
  sub,                  \* the goroutine of the running fetchPageHTML
  resultChan,           \* its resultChan
  ctxErr,               \* ctx.Err() of the running fetchPageHTML
  browserConnected,     \* pwBrowser.IsConnected()
  pageClosed,           \* page.IsClosed()
  exitReason,           \* which condition ended the loop
  reportStatus,         \* the final log line: cancelled or finished
  reportCount,          \* the number of results it reports
  written,              \* what was handed to the output writer
  returned,             \* the value Crawl returned
  enqueued,             \* history: URLs in the order they were queued
  dequeued,             \* history: URLs in the order they were dequeued
  fetched,              \* history: URLs fetchPageHTML was called for
  anyFailure,           \* history: a fetch or processHTML failed
  atCancel,             \* history: pc, results and cur when Cancel was called
  calls,                \* history: fetchPageHTML calls for the dequeued URL
  stale,                \* the goroutine of a fetchPageHTML call that has returned
  teardown,             \* the resources the deferred functions closed, in order
  sigChan,              \* signals waiting in HandleScraping's sigChan
  signals,              \* environment: signals the operator still sends
  lingers,              \* environment: Playwright calls outlive an abandoned fetch
  browserName,          \* --browser
  initErr,              \* the step at which launch or NewCrawler failed ("none": none)
  polls,                \* waitForPort: dials made that were refused
  portOpen,             \* the spawned browser listens on its port
  call                  \* the function call of a table-driven test and its result

cfgVars == <<isURLListMode, initialURLs, startURL, pageLimit, matchPatterns,
             followMatchPatterns, site>>

loopVars == <<queue, visited, results, cur, attempt, fetchErr, html, links>>

fetchVars == <<sub, resultChan, ctxErr>>

envVars == <<browserConnected, pageClosed>>

outVars == <<exitReason, reportStatus, reportCount, written, returned>>

histVars == <<enqueued, dequeued, fetched, anyFailure, atCancel, calls>>

sessVars == <<stale, teardown, sigChan, signals, lingers, browserName, initErr, polls,
              portOpen>>

crawlVars == <<cfgVars, pc, loopVars, cancelled, fetchVars, envVars, outVars, histVars,
               sessVars>>

vars == <<crawlVars, call>>

\* ------------------------------------------------------------ construction
\* parseCrawlerArgs: the start URL normalizes and has an http(s) scheme.
parseCrawlerArgs(startURLStr) ==
  LET n == normalizeURLtoString(startURLStr)
  IN [ok |-> n.ok /\ n.url.scheme \in {"http", "https"}, url |-> n.url]

ListsUpTo(n) == UNION { [1..k -> ListInputs] : k \in 1..n }

NotWritten == [called |-> FALSE, pages |-> <<>>]

NotCancelled == [pc |-> "none", results |-> <<>>, cur |-> NoURL]

NoCall == [fn |-> "none"]

InitCommon ==
  /\ call = NoCall
  /\ pageLimit \in 0..MaxLimit
  /\ startURL = NoURL
  /\ pc = "launch"
  /\ initErr = "none" /\ polls = 0 /\ portOpen = FALSE
  /\ queue = <<>> /\ visited = {} /\ results = <<>>
  /\ cur = NoURL /\ attempt = 0 /\ fetchErr = "nil" /\ html = <<>> /\ links = <<>>
  /\ cancelled = FALSE
  /\ sub = "idle" /\ resultChan = "none" /\ ctxErr = "none"
  /\ browserConnected = TRUE /\ pageClosed = FALSE
  /\ exitReason = "none" /\ reportStatus = "none" /\ reportCount = 0
  /\ written = NotWritten /\ returned = "none"
  /\ enqueued = <<>> /\ dequeued = <<>> /\ fetched = {} /\ anyFailure = FALSE
  /\ atCancel = NotCancelled
  /\ calls = 0
  /\ stale = "none" /\ teardown = <<>> /\ sigChan = 0

\* HandleScraping without --url-file: the list is the one start URL.
InitSingle ==
  /\ isURLListMode = FALSE
  /\ \E s \in SeedInputs : initialURLs = <<s>>
  /\ \E pp \in PatternPairs : matchPatterns = pp[1] /\ followMatchPatterns = pp[2]
  /\ site \in Sites

\* The patterns given with --url-file.  The follow patterns are not read in
\* this mode, so a run without any pattern is the run with follow patterns only.
ListPatternPairs == { pp \in PatternPairs : pp[1] # <<>> \/ pp[2] # <<>> }

\* HandleScraping with --url-file: the non-empty lines of the file.
InitList ==
  /\ isURLListMode = TRUE
  /\ initialURLs \in ListsUpTo(MaxListLen)
  /\ \E pp \in ListPatternPairs : matchPatterns = pp[1] /\ followMatchPatterns = pp[2]
  /\ site = [p \in SitePages |-> <<RefA, RefB>>]

\* The run whose session-level events are followed in full: the start page
\* links to two pages, one of which links on; no patterns, no page limit.
FollowedSite ==
  [p \in SitePages |-> IF p = UrlRoot THEN <<RefA, RefB>>
                       ELSE IF p = UrlA THEN <<RefRelB, RefHttpsB, RefFragOnly>>
                       ELSE <<RefRoot, RefOther, RefFtp>>]

FollowedRun ==
  /\ ~isURLListMode /\ pageLimit = 0
  /\ initialURLs = <<Str(MkURL("http", "h", <<>>, "", ""))>>
  /\ matchPatterns = <<>> /\ followMatchPatterns = <<>>
  /\ site = FollowedSite

\* The environment of the run.  Every run can get one signal, on Lightpanda,
\* with goroutines that end with their fetchPageHTML call; the followed run
\* is also made on Chromium, and with Playwright calls that go on after
\* fetchPageHTML gave up on them and up to MaxSignals signals.
InitSession ==
  \/ signals = 1 /\ lingers = FALSE /\ browserName = "lightpanda"
  \/ FollowedRun /\ signals = 1 /\ lingers = FALSE /\ browserName = "chromium"
  \/ FollowedRun /\ signals \in 1..MaxSignals /\ lingers = TRUE /\ browserName = "lightpanda"

\* A start URL whose path ends in three slashes, on Lightpanda without
\* patterns or page limit: parseCrawlerArgs and the seeding take one slash
\* each; the site has no page under the queued URL.
InitTrailingSlashes ==
  /\ isURLListMode = FALSE /\ pageLimit = 0
  /\ initialURLs = <<Str(MkURL("http", "h", <<"/", "b", "/", "/", "/">>, "", ""))>>
  /\ matchPatterns = <<>> /\ followMatchPatterns = <<>>
  /\ site = FollowedSite
  /\ signals = 1 /\ lingers = FALSE /\ browserName = "lightpanda"

Init == InitCommon /\ (((InitSingle \/ InitList) /\ InitSession) \/ InitTrailingSlashes)

\* launchBrowserAndGetConnection up to the wait for the port.  Lightpanda:
\* the process is started; Chromium: playwright.Run and Chromium.Launch.  An
\* error ends the program (logger.Fatalf in HandleScraping).
LaunchBrowser ==
  /\ pc = "launch"
  /\ IF browserName = "lightpanda"
     THEN \E started \in BOOLEAN :
            IF started
            THEN pc' = "waitPort" /\ UNCHANGED <<initErr, teardown>>
            ELSE pc' = "fatal" /\ initErr' = "start" /\ UNCHANGED teardown
     ELSE \E outcome \in {"ok", "run", "launch"} :
            /\ pc' = IF outcome = "ok" THEN "new" ELSE "fatal"
            /\ initErr' = IF outcome = "ok" THEN "none" ELSE outcome
            /\ teardown' = IF outcome = "launch" THEN <<"driver">> ELSE <<>>
  /\ UNCHANGED <<call, stale, sigChan, signals, lingers, browserName, polls, portOpen,
                 cfgVars, loopVars, cancelled, fetchVars, envVars, outVars, histVars>>

\* The spawned browser starts to listen on its port.
PortOpens ==
  /\ pc = "waitPort"
  /\ ~portOpen
  /\ portOpen' = TRUE
  /\ UNCHANGED <<call, stale, teardown, sigChan, signals, lingers, browserName, initErr,
                 polls, cfgVars, pc, loopVars, cancelled, fetchVars, envVars, outVars,
                 histVars>>

DialSucceeds_Always == TRUE

\* net.DialTimeout on the port returns a connection.
DialSucceeds == portOpen

\* One round of waitForPort, and what launchBrowserAndGetConnection does
\* with its result: after MaxPolls refused dials the deadline has passed, the
\* process is killed and waited for and the not-ready error is returned;
\* after a dial that succeeded playwright.Run starts the driver, and its
\* error kills the process too.
WaitForPort ==
  /\ pc = "waitPort"
  /\ IF polls < MaxPolls
     THEN IF DialSucceeds
          THEN /\ polls' = 0
               /\ \E runOK \in BOOLEAN :
                    IF runOK
                    THEN pc' = "new" /\ UNCHANGED <<initErr, teardown>>
                    ELSE pc' = "fatal" /\ initErr' = "run" /\ teardown' = <<"process">>
          ELSE polls' = polls + 1 /\ UNCHANGED <<pc, initErr, teardown>>
     ELSE pc' = "fatal" /\ initErr' = "notReady" /\ teardown' = <<"process">>
          /\ UNCHANGED polls
  /\ UNCHANGED <<call, stale, sigChan, signals, lingers, browserName, portOpen,
                 cfgVars, loopVars, cancelled, fetchVars, envVars, outVars, histVars>>

\* The steps of NewCrawlerFor... after parseCrawlerArgs that can fail:
\* ConnectOverCDP (Lightpanda only), NewContext, NewPage (with the nil and
\* closed tests of the page), Goto("about:blank"), Title.
InitStages ==
  (IF browserName = "lightpanda" THEN {"connect"} ELSE {}) \cup
    {"context", "page", "blank", "title"}

\* What the constructor closes itself before it returns the error.
ConstructorCloses(stage) ==
  IF stage \in {"blank", "title"} THEN <<"page", "context">>
  ELSE IF stage = "page" THEN <<"context">>
  ELSE <<>>

\* NewCrawlerFor...: parseCrawlerArgs on the start URL, which is the first
\* entry of the list in both modes, then the connection, context and page.
\* An error ends the program (logger.Fatalf in HandleScraping), so the
\* deferred functions of HandleScraping do not run.
NewCrawler ==
  /\ pc = "new"
  /\ LET a == parseCrawlerArgs(initialURLs[1])
     IN IF ~a.ok
        THEN pc' = "fatal" /\ initErr' = "parse"
             /\ UNCHANGED <<startURL, teardown, cancelled>>
        ELSE \E stage \in InitStages \cup {"none"} :
               IF stage = "none"
               THEN startURL' = a.url /\ pc' = "seed"
                    /\ UNCHANGED <<initErr, teardown, cancelled>>
               ELSE /\ pc' = "fatal" /\ initErr' = stage
                    /\ teardown' = ConstructorCloses(stage)
                    /\ cancelled' = TRUE
                    /\ UNCHANGED startURL
  /\ UNCHANGED <<call, stale, sigChan, signals, lingers, browserName, polls, portOpen,
                 isURLListMode, initialURLs, pageLimit, matchPatterns,
                 followMatchPatterns, site, loopVars, fetchVars,
                 envVars, outVars, histVars>>

\* ---------------------------------------------------------------- seeding
\* The loop over initialURLs in URL list mode: q is the queue built so far.
RECURSIVE SeedList(_, _)
SeedList(urls, q) ==
  IF urls = <<>> THEN q
  ELSE LET n == normalizeURLtoString(Head(urls))
       IN SeedList(Tail(urls),
                   IF n.ok /\ n.url \notin SeqToSet(q) THEN Append(q, n.url) ELSE q)

SeedQueue ==
  IF isURLListMode THEN SeedList(initialURLs, <<>>)
  ELSE LET n == normalizeURLtoString(Str(startURL))
       IN IF n.ok THEN <<n.url>> ELSE <<>>

\* rootCtx.Err() != nil at the top of the loop.
CancelledAtLoopTop == cancelled

\* Mutant: the retry loop does not look at the context.
CancelledBeforeAttempt_Never == FALSE

\* rootCtx.Err() != nil at the top of the retry loop.
CancelledBeforeAttempt == cancelled

\* Mutant: the loop over the links does not look at the context.
CancelledBeforeEnqueue_Never == FALSE

\* rootCtx.Err() != nil before a link is queued.
CancelledBeforeEnqueue == cancelled

\* Mutant: the page limit check is off by one.
LimitReached_OffByOne == pageLimit > 0 /\ Len(results) > pageLimit

\* Mutant: the page limit is compared with the number of dequeued URLs.
LimitReached_Dequeued == pageLimit > 0 /\ Len(dequeued) > pageLimit + 1

\* The page limit check after the dequeue.
LimitReached == pageLimit > 0 /\ Len(results) >= pageLimit

\* Mutant: only the URLs still in the queue count as visited.
IsVisited_QueueOnly(l) == l \in SeqToSet(queue)

\* The visited lookup before a link is queued.
IsVisited(l) == l \in visited

\* Mutant: only the links of a page whose content is saved are looked at.
ShouldExpand_MatchedOnly ==
  ~isURLListMode /\ cur.host = startURL.host /\ shouldProcessContent(matchPatterns, cur)

\* Mutant: links are looked at in URL list mode too.
ShouldExpand_AnyMode == cur.host = startURL.host

\* Mutant: only the links of the start page are looked at.
ShouldExpand_SeedOnly == ~isURLListMode /\ cur = startURL

\* Mutant: only the links of a page whose record was appended are looked at.
ShouldExpand_ProcessedOnly ==
  ~isURLListMode /\ cur.host = startURL.host /\ results' # results

\* Links of a fetched page are looked at in single URL mode, on the seed host.
ShouldExpand == ~isURLListMode /\ cur.host = startURL.host

\* Mutant: the new record replaces the list.
AppendResult_Prepend(rs, pd) == <<pd>> \o rs

AppendResult_Replace(rs, pd) == <<pd>>

\* c.results = append(c.results, *pageData)
AppendResult(rs, pd) == Append(rs, pd)

\* Leave the loop for the final log line and the output.
ExitLoop(reason) ==
  /\ pc' = "finish"
  /\ exitReason' = reason

\* ------------------------------------------------------------ teardown
\* Mutant: the first close that fails ends the deferred function.
ContinuesAfterCloseError_Stops == FALSE

\* The error of a close is logged and the next close follows.
ContinuesAfterCloseError == TRUE

\* The deferred function of Crawl: the page unless it is closed already, then
\* the browser context.
CrawlDeferred == (IF pageClosed THEN <<>> ELSE <<"page">>) \o <<"context">>

\* The deferred function of HandleScraping: the browser connection when
\* HandleScraping holds one (Chromium) that is still connected, the Playwright
\* driver, the Lightpanda process when one was started.
SessionDeferred ==
  (IF browserName = "chromium" /\ browserConnected THEN <<"browser">> ELSE <<>>)
    \o <<"driver">>
    \o (IF browserName = "lightpanda" THEN <<"process">> ELSE <<>>)

CloseSteps == {"page", "context", "browser", "driver", "process"}

RECURSIVE RunDeferred(_, _)
\* The closes a deferred function makes, given the set of closes that fail.
RunDeferred(steps, failing) ==
  IF steps = <<>> THEN <<>>
  ELSE IF Head(steps) \in failing /\ ~ContinuesAfterCloseError THEN <<Head(steps)>>
  ELSE <<Head(steps)>> \o RunDeferred(Tail(steps), failing)

\* Crawl returns to HandleScraping, which logs and returns: the deferred
\* function of Crawl runs, then the one of HandleScraping; no close fails, or
\* every close fails.
Teardown ==
  \E failing \in {{}, CloseSteps} :
    teardown' = RunDeferred(CrawlDeferred, failing) \o RunDeferred(SessionDeferred, failing)

\* Crawl up to the loop: seed queue and visited; an empty queue returns nil.
Seed ==
  /\ pc = "seed"
  /\ queue' = SeedQueue
  /\ visited' = visited \cup SeqToSet(SeedQueue)
  /\ enqueued' = SeedQueue
  /\ IF SeedQueue = <<>>
     THEN pc' = "done" /\ returned' = "nil" /\ Teardown
     ELSE pc' = "loop" /\ UNCHANGED <<returned, teardown>>
  /\ UNCHANGED <<call, stale, sigChan, signals, lingers, browserName, initErr, polls, portOpen, calls, cfgVars, results, cur, attempt, fetchErr, html, links, cancelled,
                 fetchVars, envVars, exitReason, reportStatus, reportCount, written,
                 dequeued, fetched, anyFailure, atCancel>>

\* ------------------------------------------------------------ the crawl loop
\* Top of the loop: loop condition, context check, dequeue, page limit check.
LoopTop ==
  /\ pc = "loop"
  /\ IF Len(queue) = 0
     THEN ExitLoop("empty") /\ UNCHANGED <<queue, cur, attempt, dequeued, calls>>
     ELSE IF CancelledAtLoopTop
     THEN ExitLoop("cancel") /\ UNCHANGED <<queue, cur, attempt, dequeued, calls>>
     ELSE /\ cur' = Head(queue)
          /\ queue' = Tail(queue)
          /\ dequeued' = Append(dequeued, Head(queue))
          /\ calls' = 0
          /\ IF LimitReached
             THEN ExitLoop("limit") /\ UNCHANGED attempt
             ELSE pc' = "attempt" /\ attempt' = 0 /\ UNCHANGED exitReason
  /\ UNCHANGED <<call, sessVars, cfgVars, visited, results, fetchErr, html, links, cancelled,
                 fetchVars, envVars, reportStatus, reportCount, written, returned,
                 enqueued, fetched, anyFailure, atCancel>>

\* Top of the retry loop: a cancelled context ends it with the context's
\* error, otherwise fetchPageHTML is called and starts its goroutine.
Attempt ==
  /\ pc = "attempt"
  /\ IF CancelledBeforeAttempt
     THEN /\ fetchErr' = "ctxCanceled"
          /\ pc' = "failed"
          /\ UNCHANGED <<fetchVars, fetched, calls>>
     ELSE /\ pc' = "select"
          /\ sub' = "running"
          /\ resultChan' = "none"
          /\ ctxErr' = IF cancelled THEN "canceled" ELSE "none"
          /\ fetched' = fetched \cup {cur}
          /\ calls' = calls + 1
          /\ UNCHANGED fetchErr
  /\ UNCHANGED <<call, sessVars, cfgVars, queue, visited, results, cur, attempt, html, links,
                 cancelled, envVars, outVars, enqueued, dequeued, anyFailure, atCancel>>

\* What the goroutine of fetchPageHTML can send, given the page and browser.
SubOutcomes ==
  IF pageClosed THEN {"pageClosed", "targetClosed"}
  ELSE IF ~browserConnected THEN {"notConnected", "targetClosed"}
  ELSE {"ok", "blank", "navFailed", "connRefused"}

\* The goroutine sends its result on the buffered channel and returns.
SubtaskFinish ==
  /\ pc = "select"
  /\ sub = "running"
  /\ \E o \in SubOutcomes : resultChan' = o
  /\ sub' = "done"
  /\ UNCHANGED <<call, sessVars, cfgVars, pc, loopVars, cancelled, ctxErr, envVars, outVars, histVars>>

\* The 120s deadline of the running fetchPageHTML expires.
Timeout ==
  /\ pc = "select"
  /\ ctxErr = "none"
  /\ ctxErr' = "deadline"
  /\ UNCHANGED <<call, sessVars, cfgVars, pc, loopVars, cancelled, sub, resultChan, envVars,
                 outVars, histVars>>

\* Crawler.Cancel, called by the signal goroutine, which HandleScraping
\* starts once the crawler exists.
Cancel ==
  /\ pc \notin {"launch", "waitPort", "new", "fatal", "done"}
  /\ ~cancelled
  /\ signals > 0
  /\ signals' = signals - 1
  /\ cancelled' = TRUE
  /\ ctxErr' = IF pc = "select" /\ ctxErr = "none" THEN "canceled" ELSE ctxErr
  /\ atCancel' = [pc |-> pc, results |-> results, cur |-> cur]
  /\ UNCHANGED <<call, stale, teardown, sigChan, lingers, browserName, initErr, polls, portOpen, calls, cfgVars, pc, loopVars, sub, resultChan, envVars, outVars,
                 enqueued, dequeued, fetched, anyFailure>>

\* Mutant: after the first signal the signals end the program again.
AfterLaterSignal_Exits == "fatal"

\* signal.Notify stays in force: a later signal does not end the program.
AfterLaterSignal == pc

\* A signal after the first: the goroutine that read sigChan has returned, so
\* the signal stays in the channel's buffer of one, or is dropped when the
\* buffer is full.
Signal ==
  /\ pc \notin {"launch", "waitPort", "new", "fatal", "done"}
  /\ cancelled
  /\ signals > 0
  /\ signals' = signals - 1
  /\ sigChan' = IF sigChan < 1 THEN sigChan + 1 ELSE sigChan
  /\ pc' = AfterLaterSignal
  /\ UNCHANGED <<call, stale, teardown, lingers, browserName, initErr, polls, portOpen, cfgVars, loopVars, cancelled,
                 fetchVars, envVars, outVars, histVars>>

\* The browser connection is lost.  The crawl reads the connection state only
\* while a fetch runs and when it classifies a fetch error, so a loss at any
\* other moment is the same as a loss at the start of the next fetch.
BrowserDisconnect ==
  /\ pc \in {"select", "failed"}
  /\ browserConnected
  /\ browserConnected' = FALSE
  /\ UNCHANGED <<call, sessVars, cfgVars, pc, loopVars, cancelled, fetchVars, pageClosed, outVars,
                 histVars>>

\* The page is closed (it crashed); only a running fetch reads this.
PageClose ==
  /\ pc = "select"
  /\ ~pageClosed
  /\ pageClosed' = TRUE
  /\ UNCHANGED <<call, sessVars, cfgVars, pc, loopVars, cancelled, fetchVars, browserConnected,
                 outVars, histVars>>

\* The error strings fetchPageHTML builds, by what the caller looks for.
IsTimeout(e) == e = "deadline"

\* Every error fetchPageHTML builds has the page URL in its text (%s); the
\* error of the context check before the call (rootCtx.Err()) has not.  A
\* URL string can hold a phrase without a blank in its path.
URLMentions(u, phrase) == phrase \in SeqToSet(u.path)

\* strings.Contains(fetchErr.Error(), "Playwright")
TextHasPlaywright(e, u) ==
  \/ e \in {"pageClosed", "notConnected", "targetClosed"}
  \/ e \notin {"nil", "ctxCanceled"} /\ URLMentions(u, "Playwright")

\* strings.Contains(errMsgFromFetch, ...) for the closed and refused phrases
TextHasCritical(e, u) ==
  \/ e \in {"targetClosed", "connRefused"}
  \/ e \notin {"nil", "ctxCanceled"} /\ URLMentions(u, "net::ERR_CONNECTION_REFUSED")

HasPlaywright(e) == TextHasPlaywright(e, cur)

HasCriticalText(e) == TextHasCritical(e, cur)

\* What the retry loop and the test after it decide for an error of
\* fetchPageHTML(pageURL): tokenDone is rootCtx.Err() != nil, connected is
\* pwBrowser.IsConnected().
FetchDecision(e, pageURL, att, tokenDone, connected) ==
  [retry |-> (IsTimeout(e) \/ TextHasPlaywright(e, pageURL)) /\ att < maxRetries,
   critical |-> tokenDone \/ ~connected \/ TextHasCritical(e, pageURL)]

\* The cases of the select that are ready.
ReadyCases ==
  (IF ctxErr # "none" THEN {"ctx"} ELSE {}) \cup
  (IF resultChan # "none" THEN {"res"} ELSE {})

\* Mutant: a done context is always reported as the deadline.
FetchError_NoCancelCase(case) ==
  IF case = "ctx" THEN "deadline"
  ELSE IF resultChan = "ok" THEN "nil"
  ELSE IF resultChan = "blank" THEN "empty"
  ELSE resultChan

\* The error fetchPageHTML returns for a case of the select ("nil": none).
FetchError(case) ==
  IF case = "ctx"
  THEN IF cancelled /\ ctxErr = "canceled" THEN "fetchCanceled" ELSE "deadline"
  ELSE IF resultChan = "ok" THEN "nil"
  ELSE IF resultChan = "blank" THEN "empty"
  ELSE resultChan

\* Mutant: the retry loop does not count its rounds.
ShouldRetry_NoBound(e, att) == IsTimeout(e) \/ HasPlaywright(e)

\* Mutant: every failed first attempt is retried.
ShouldRetry_Always(e, att) == att < maxRetries

\* Whether the retry loop goes round again after error e.
ShouldRetry(e, att) == (IsTimeout(e) \/ HasPlaywright(e)) /\ att < maxRetries

\* The page's document, as the sequence of its a[href] values.
PageLinks(u) == IF u \in DOMAIN site THEN site[u] ELSE <<>>

\* The select took ctx.Done() while the goroutine had not sent yet: the
\* goroutine goes on with page.Goto and page.Content after the return.
Abandoned(case) == lingers /\ case = "ctx" /\ sub = "running"

\* fetchPageHTML returns from its select, and the retry loop goes on.
FetchReturn ==
  /\ pc = "select"
  /\ \E case \in ReadyCases :
       LET e == FetchError(case) IN
       /\ stale' = IF Abandoned(case) THEN "running" ELSE stale
       /\ IF e = "nil"
          THEN /\ html' = PageLinks(cur)
               /\ fetchErr' = "nil"
               /\ pc' = "process"
               /\ UNCHANGED <<attempt, anyFailure>>
          ELSE /\ anyFailure' = TRUE
               /\ fetchErr' = e
               /\ UNCHANGED html
               /\ IF ShouldRetry(e, attempt)
                  THEN pc' = "attempt" /\ attempt' = attempt + 1
                  ELSE pc' = "failed" /\ UNCHANGED attempt
  /\ sub' = "idle" /\ resultChan' = "none" /\ ctxErr' = "none"
  /\ UNCHANGED <<call, teardown, sigChan, signals, lingers, browserName, initErr, polls, portOpen, calls, cfgVars, queue, visited, results, cur, links, cancelled,
                 envVars, outVars, enqueued, dequeued, fetched, atCancel>>

IsCriticalError(e) == cancelled \/ ~browserConnected \/ HasCriticalText(e)

\* Mutant: a skipped URL is forgotten, so that a later link can queue it again.
VisitedAfterSkip_Forget == visited \ {cur}

\* The `continue` of a skipped page leaves c.visited as it is.
VisitedAfterSkip == visited

\* fetchErr != nil after the retry loop: stop the crawl or skip the page.
HandleFetchError ==
  /\ pc = "failed"
  /\ anyFailure' = TRUE
  /\ IF IsCriticalError(fetchErr)
     THEN ExitLoop("critical") /\ UNCHANGED fetchErr
     ELSE pc' = "loop" /\ fetchErr' = "nil" /\ UNCHANGED exitReason
  /\ visited' = IF IsCriticalError(fetchErr) THEN visited ELSE VisitedAfterSkip
  /\ UNCHANGED <<call, sessVars, calls, cfgVars, queue, results, cur, attempt, html, links,
                 cancelled, fetchVars, envVars, reportStatus,
                 reportCount, written, returned, enqueued, dequeued, fetched, atCancel>>

\* processHTML's record for the page.
PageData(u, body) == [URL |-> u, RawHTML |-> body]

\* shouldProcessContent and processHTML, then extractAndFilterLinks.
Process ==
  /\ pc = "process"
  /\ IF shouldProcessContent(matchPatterns, cur)
     THEN \E processOK \in BOOLEAN :
            IF processOK
            THEN results' = AppendResult(results, PageData(cur, html))
                 /\ UNCHANGED anyFailure
            ELSE anyFailure' = TRUE /\ UNCHANGED results
     ELSE UNCHANGED <<results, anyFailure>>
  /\ IF ShouldExpand
     THEN /\ links' = extractAndFilterLinks(startURL, followMatchPatterns, cur, html)
          /\ pc' = "links"
     ELSE pc' = "loop" /\ UNCHANGED links
  /\ html' = <<>>
  /\ UNCHANGED <<call, sessVars, calls, cfgVars, queue, visited, cur, attempt, fetchErr, cancelled,
                 fetchVars, envVars, outVars, enqueued, dequeued, fetched, atCancel>>

VisitedAfterEnqueue_Later(l) == visited

VisitedAfterEnqueue_Replace(l) == {l}

\* c.visited[normalizedLinkStr] = true, in the same step as the append to
\* the queue.
VisitedAfterEnqueue(l) == visited \cup {l}

RestOfLinks_Same == links

\* for _, link := range foundLinks: the range goes on with the next link.
RestOfLinks == Tail(links)

\* One round of the loop over the links of the page.
EnqueueLink ==
  /\ pc = "links"
  /\ IF links = <<>>
     THEN pc' = "loop" /\ UNCHANGED <<links, visited, queue, enqueued>>
     ELSE IF IsVisited(Head(links))
     THEN links' = RestOfLinks /\ UNCHANGED <<pc, visited, queue, enqueued>>
     ELSE IF CancelledBeforeEnqueue
     THEN links' = <<>> /\ pc' = "loop" /\ UNCHANGED <<visited, queue, enqueued>>
     ELSE /\ visited' = VisitedAfterEnqueue(Head(links))
          /\ queue' = Append(queue, Head(links))
          /\ enqueued' = Append(enqueued, Head(links))
          /\ links' = RestOfLinks
          /\ UNCHANGED pc
  /\ UNCHANGED <<call, sessVars, calls, cfgVars, results, cur, attempt, fetchErr, html, cancelled,
                 fetchVars, envVars, outVars, dequeued, fetched, anyFailure, atCancel>>

\* ------------------------------------------------------------ after the loop
\* Mutant: the final log line does not look at the context.
ReportStatus_AlwaysCompleted == "Completed"

\* The final log line says "stopped due to cancellation" or "finished".
ReportStatus == IF cancelled THEN "Cancelled" ELSE "Completed"

\* The final log line: stopped by cancellation or finished, and the count.
Finish ==
  /\ pc = "finish"
  /\ reportStatus' = ReportStatus
  /\ reportCount' = Len(results)
  /\ pc' = "output"
  /\ UNCHANGED <<call, sessVars, cfgVars, loopVars, cancelled, fetchVars, envVars, exitReason,
                 written, returned, histVars>>

\* Mutant: the writer is called whether or not there are results.
OutputWritten_Always == [called |-> TRUE, pages |-> results]

\* The results go to the output writer when there are any.
OutputWritten ==
  IF Len(results) > 0 THEN [called |-> TRUE, pages |-> results] ELSE written

\* Mutant: a critical fetch error is returned to the caller.
CrawlReturn_ErrOnCritical == IF exitReason = "critical" THEN "error" ELSE "nil"

\* The value Crawl returns after the loop.
CrawlReturn == "nil"

\* The results go to the output writer when there are any; Crawl returns nil
\* and the deferred functions run.
Output ==
  /\ pc = "output"
  /\ written' = OutputWritten
  /\ returned' = CrawlReturn
  /\ Teardown
  /\ pc' = "done"
  /\ UNCHANGED <<call, stale, sigChan, signals, lingers, browserName, initErr, polls, portOpen, cfgVars, loopVars, cancelled, fetchVars, envVars, exitReason,
                 reportStatus, reportCount, histVars>>

\* Mutant: the channel has no buffer.
ResultChanBuffered_No == FALSE

\* resultChan := make(chan result, 1): a send finds room without a receiver.
ResultChanBuffered == TRUE

\* A goroutine left behind by fetchPageHTML sends its result on the channel of
\* its own call, which nobody reads any more: with room in the buffer it
\* returns, without it would wait for a receiver for ever.
StaleFinish ==
  /\ pc # "done"
  /\ stale = "running"
  /\ stale' = IF ResultChanBuffered THEN "none" ELSE "blocked"
  /\ UNCHANGED <<call, teardown, sigChan, signals, lingers, browserName, initErr, polls, portOpen, cfgVars, pc,
                 loopVars, cancelled, fetchVars, envVars, outVars, histVars>>

Next ==
  \/ LaunchBrowser
  \/ PortOpens
  \/ WaitForPort
  \/ NewCrawler
  \/ Seed
  \/ LoopTop
  \/ Attempt
  \/ SubtaskFinish
  \/ Timeout
  \/ Cancel
  \/ Signal
  \/ BrowserDisconnect
  \/ PageClose
  \/ FetchReturn
  \/ StaleFinish
  \/ HandleFetchError
  \/ Process
  \/ EnqueueLink
  \/ Finish
  \/ Output

Spec == Init /\ [][Next]_vars

\* The followed run under the scheduling the code relies on: the goroutine
\* of Crawl takes its next step, and a call of fetchPageHTML returns: the
\* goroutine it started sends its result (Playwright's own timeouts) or the
\* context made by context.WithTimeout expires.  Signals, the loss of the
\* browser or the page and abandoned goroutines may or may not happen.
LiveInit == Init /\ FollowedRun

Fairness ==
  /\ WF_vars(Seed) /\ WF_vars(LoopTop) /\ WF_vars(Attempt)
  /\ WF_vars(SubtaskFinish) /\ WF_vars(Timeout) /\ WF_vars(FetchReturn)
  /\ WF_vars(HandleFetchError) /\ WF_vars(Process) /\ WF_vars(EnqueueLink)
  /\ WF_vars(Finish) /\ WF_vars(Output)

LiveSpec == LiveInit /\ [][Next]_vars /\ Fairness

TypeOK ==
  /\ pc \in {"launch", "waitPort", "new", "fatal", "seed", "loop", "attempt", "select",
             "failed", "process", "links", "finish", "output", "done"}
  /\ initErr \in {"none", "start", "notReady", "run", "launch", "parse", "connect",
                  "context", "page", "blank", "title"}
  /\ polls \in 0..MaxPolls
  /\ portOpen \in BOOLEAN
  /\ attempt \in 0..maxRetries
  /\ sub \in {"idle", "running", "done"}
  /\ ctxErr \in {"none", "canceled", "deadline"}
  /\ cancelled \in BOOLEAN
  /\ stale \in {"none", "running", "blocked"}
  /\ sigChan \in 0..1
  /\ signals \in 0..MaxSignals
  /\ lingers \in BOOLEAN
  /\ browserName \in {"lightpanda", "chromium"}
  /\ SeqToSet(teardown) \subseteq CloseSteps

\* ================================================================= claims
NoDup(s) == \A i, j \in 1..Len(s) : i # j => s[i] # s[j]

IsPrefix(a, b) == Len(a) <= Len(b) /\ SubSeq(b, 1, Len(a)) = a

ResultURLs == {results[i].URL : i \in 1..Len(results)}

CapReached == pageLimit > 0 /\ Len(results) = pageLimit

\* C1: every canonical URL is queued at most once and dequeued at most once,
\* and the first fetch attempt of a loop iteration is never for a URL that
\* fetchPageHTML was already called for (only the retry fetches it again).
C1_NoDuplicateFetch ==
  /\ [](NoDup(enqueued) /\ NoDup(dequeued))
  /\ [][(pc = "attempt" /\ pc' = "select" /\ attempt = 0) => cur \notin fetched]_vars

\* C1 witness: link expansion meets a link that is already in visited, after
\* a page was fetched twice (retry) in one iteration.
C1_Witness ==
  /\ ~isURLListMode
  /\ pc = "links" /\ links # <<>> /\ Head(links) \in visited
  /\ Len(dequeued) >= 2
  /\ anyFailure

\* C2: with pageLimit > 0, len(results) <= pageLimit in every state.
C2_ResultsWithinLimit == pageLimit > 0 => Len(results) <= pageLimit

\* C2 witness: the limit is reached while links of the page are still to be
\* queued.
C2_Witness == pageLimit = 1 /\ Len(results) = 1 /\ pc = "links" /\ links # <<>>

\* C3: once results holds pageLimit records no fetch attempt is started any
\* more, and the run ends with these results handed to the writer.
C3_StopsAtLimit ==
  CapReached =>
    /\ pc \in {"links", "loop", "finish", "output", "done"}
    /\ sub = "idle"
    /\ (pc = "done" => written = [called |-> TRUE, pages |-> results])

\* C3 witness: the run ended by the limit with URLs left in the queue.
C3_Witness ==
  pc = "done" /\ exitReason = "limit" /\ CapReached /\ Len(queue) > 0

\* C4: results is append-only, and the records appended before a cancellation
\* that fired during a fetch are written out, in the same order.
C4_AppendOnly ==
  /\ [][IsPrefix(results, results')]_vars
  /\ []((pc = "done" /\ atCancel.pc = "select" /\ atCancel.results # <<>>) =>
          (written.called /\ IsPrefix(atCancel.results, written.pages)))

\* C4 witness: cancelled during a fetch with two records collected before.
C4_Witness ==
  pc = "done" /\ atCancel.pc = "select" /\ Len(atCancel.results) = 2

C6_Original == pc = "done" => written = [called |-> TRUE, pages |-> results]

\* C6 amended: whatever ended the loop, the writer gets the current results
\* when there is at least one record; with no record the writer is not called
\* (the run only logs that there is nothing to output).
C6_WritesWhenNonEmpty ==
  pc = "done" =>
    /\ written.called <=> Len(results) > 0
    /\ written.called => written.pages = results

\* C6 witness: a critical error ended the loop before any record was saved.
C6_Witness ==
  pc = "done" /\ exitReason = "critical" /\ results = <<>> /\ ~written.called

C8_CriticalKeepsPartial ==
  (pc = "done" /\ exitReason = "critical" /\ Len(results) > 0) =>
    /\ returned = "nil"
    /\ written = [called |-> TRUE, pages |-> results]

\* C8 witness: the browser connection was lost (no cancellation) after one
\* record.
C8_Witness ==
  /\ pc = "done" /\ exitReason = "critical" /\ Len(results) = 1
  /\ ~cancelled /\ ~browserConnected

\* The same-host http(s) targets of the links of page u.
SameHostTargets(u) ==
  { n.url : n \in { x \in { normalizeURLtoString(Str(ResolveReference(u, PageLinks(u)[i]))) :
                              i \in 1..Len(PageLinks(u)) } :
                    x.ok /\ x.url.host = startURL.host
                         /\ x.url.scheme \in {"http", "https"} } }

RECURSIVE Reachable(_)
Reachable(S) ==
  LET N == S \cup UNION { SameHostTargets(u) : u \in S }
  IN IF N = S THEN S ELSE Reachable(N)

\* The URL the seeding queues in single URL mode.
SeedURL == normalizeURLtoString(Str(startURL)).url

\* C9: single URL mode, no cancellation, no failure, no limit, no patterns:
\* one record for every same-host page reachable from the seed, and the run
\* is reported as completed.
C9_CrawlsAllReachable ==
  ( /\ pc = "done" /\ ~isURLListMode /\ ~cancelled /\ ~anyFailure
    /\ pageLimit = 0 /\ matchPatterns = <<>> /\ followMatchPatterns = <<>> ) =>
    /\ ResultURLs = Reachable({SeedURL})
    /\ Len(results) = Cardinality(Reachable({SeedURL}))
    /\ reportStatus = "Completed"

\* C9 witness: the seed page links to one other page: two records.
C9_Witness ==
  /\ pc = "done" /\ ~isURLListMode /\ ~cancelled /\ ~anyFailure
  /\ pageLimit = 0 /\ matchPatterns = <<>> /\ followMatchPatterns = <<>>
  /\ Len(results) = 2 /\ Cardinality(SameHostTargets(startURL)) = 1
  /\ reportStatus = "Completed"

\* C10: in single URL mode every queued URL has the start URL's hostname and
\* an http or https scheme.
C10_SameHostOnly ==
  ~isURLListMode =>
    \A i \in 1..Len(enqueued) :
      /\ enqueued[i].host = startURL.host
      /\ enqueued[i].scheme \in {"http", "https"}

\* C10 witness: a page with a link to another host and an ftp link was
\* expanded and its same-host link was queued.
C10_Witness ==
  /\ ~isURLListMode /\ pc = "loop" /\ Len(dequeued) >= 1
  /\ RefOther \in SeqToSet(PageLinks(cur)) /\ RefFtp \in SeqToSet(PageLinks(cur))
  /\ cur \in ResultURLs
  /\ UrlRoot \in SeqToSet(queue)

\* The example of the follow filter: a page that links to /a/x and to /d/y.
AllowedPattern == <<"/", "a", "/", "*">>

RefAllowedX == MkURL("", "", <<"/", "a", "/", "x">>, "", "")

RefDeniedY == MkURL("", "", <<"/", "d", "/", "y">>, "", "")

\* C11: in single URL mode with follow patterns every URL queued by link
\* expansion has a path that one of the follow patterns matches, while the
\* seed is queued whatever the patterns are; with the pattern /a/* a page
\* linking to /a/x and /d/y yields only /a/x.
C11_FollowFilter ==
  /\ (~isURLListMode /\ Len(followMatchPatterns) > 0) =>
        \A i \in 2..Len(enqueued) : MatchesAny(followMatchPatterns, enqueued[i])
  /\ (~isURLListMode /\ pc \notin {"launch", "waitPort", "new", "fatal", "seed"}) =>
        /\ Len(enqueued) >= 1
        /\ enqueued[1] = normalizeURLtoString(Str(startURL)).url
  /\ pc = "new" =>
       extractAndFilterLinks(UrlRoot, <<AllowedPattern>>, UrlRoot,
                             <<RefAllowedX, RefDeniedY>>)
         = <<[UrlRoot EXCEPT !.path = RefAllowedX.path]>>

\* C11 witness: the seed matches no follow pattern and was queued; its page
\* links to /a and /b and only /a was queued.
C11_Witness ==
  /\ ~isURLListMode /\ Len(followMatchPatterns) > 0 /\ pc = "loop"
  /\ ~MatchesAny(followMatchPatterns, enqueued[1])
  /\ cur = enqueued[1]
  /\ RefA \in SeqToSet(PageLinks(cur)) /\ RefB \in SeqToSet(PageLinks(cur))
  /\ enqueued = <<cur, UrlA>>
  /\ UrlB \notin visited

\* The distinct canonical forms of the entries of l that normalize.
ValidCanonical(l) ==
  { normalizeURLtoString(l[i]).url :
      i \in { j \in 1..Len(l) : normalizeURLtoString(l[j]).ok } }

Seeded == pc \notin {"launch", "waitPort", "new", "fatal", "seed"}

\* C12: in URL list mode seeding leaves exactly one queue entry for each
\* distinct canonical URL of the valid list entries; afterwards the queue
\* never grows, nothing is queued and the link extraction (where the follow
\* patterns are evaluated) is never entered.
C12_ListQueueFixed ==
  /\ [][(isURLListMode /\ pc = "seed" /\ pc' # "seed") =>
          /\ Len(queue') = Cardinality(ValidCanonical(initialURLs))
          /\ SeqToSet(queue') = ValidCanonical(initialURLs)]_vars
  /\ []((isURLListMode /\ Seeded) =>
          /\ Len(enqueued) = Cardinality(ValidCanonical(initialURLs))
          /\ pc # "links" /\ links = <<>>)
  /\ [][(isURLListMode /\ Seeded) =>
          /\ Len(queue') <= Len(queue)
          /\ enqueued' = enqueued]_vars

\* C12 witness: a list of two entries with one canonical form and a follow
\* pattern; its page, which has links, was fetched and saved, and the queue
\* is empty.
C12_Witness ==
  /\ isURLListMode /\ Len(initialURLs) = 2 /\ Len(enqueued) = 1
  /\ Len(followMatchPatterns) > 0
  /\ pc = "loop" /\ queue = <<>> /\ Len(results) = 1
  /\ results[1].RawHTML # <<>>

\* C13 as stated: in URL list mode an invalid entry at any position is not
\* fatal, and every distinct valid URL of the list is seeded.
C13_Original ==
  isURLListMode =>
    /\ ~(pc = "fatal" /\ initErr = "parse")
    /\ (Seeded \/ (pc = "fatal" /\ initErr = "parse")) =>
         SeqToSet(enqueued) = ValidCanonical(initialURLs)

\* C14: in single URL mode a fetched page whose path matches no --match
\* pattern adds no record, and its links are queued as for any other page:
\* an undisturbed run without limit and follow patterns queues every
\* same-host page reachable from the seed and saves exactly those whose path
\* matches.
C14_UnmatchedStillExpanded ==
  /\ [][(pc = "process" /\ ~isURLListMode /\ ~shouldProcessContent(matchPatterns, cur))
          => results' = results]_vars
  /\ []((pc = "done" /\ ~isURLListMode /\ ~cancelled /\ ~anyFailure
          /\ pageLimit = 0 /\ followMatchPatterns = <<>>) =>
          /\ SeqToSet(enqueued) = Reachable({SeedURL})
          /\ ResultURLs = { u \in Reachable({SeedURL}) :
                              shouldProcessContent(matchPatterns, u) })

\* C14 witness: the seed page matches no pattern and has no record, and the
\* page it links to was fetched and saved.
C14_Witness ==
  /\ pc = "done" /\ ~isURLListMode /\ ~cancelled /\ ~anyFailure /\ pageLimit = 0
  /\ Len(matchPatterns) > 0
  /\ ~shouldProcessContent(matchPatterns, startURL)
  /\ startURL \in SeqToSet(dequeued) /\ startURL \notin ResultURLs
  /\ ResultURLs = {UrlA}

\* ============================================== the table-driven unit tests
\* Each test calls one function on one row of its table; the crawler is not
\* running.
MaxPathLen == 6
MaxRecords == 3

PathTokens == {"/", "a"}

Paths == UNION { [1..k -> PathTokens] : k \in 0..MaxPathLen }

Rooted(p) == p # <<>> /\ Head(p) = "/"

\* What url.Parse can return for a non-empty string: without a scheme a path
\* that starts with "//" is read as a host, with a scheme a path that does not
\* start with "/" is read as opaque, and a host is followed by "/" or nothing.
Parseable(u) ==
  /\ u # NoURL
  /\ (u.host # "" \/ u.scheme # "") => (u.path = <<>> \/ Rooted(u.path))
  /\ (u.host = "" /\ u.scheme = "") =>
       ~(Len(u.path) >= 2 /\ u.path[1] = "/" /\ u.path[2] = "/")

ParsedURLs ==
  { u \in { MkURL(s, h, p, q, f) :
              s \in {"", "http", "ftp"}, h \in {"", "h"}, p \in Paths,
              q \in {"", "q"}, f \in {"", "f"} } : Parseable(u) }

NormalizeInputs ==
  { [kind |-> "blank", u |-> NoURL], [kind |-> "bad", u |-> NoURL] } \cup
  { Str(u) : u \in ParsedURLs }

\* The URL of a fetched page.
PageURLs ==
  { MkURL("http", "h", p, q, f) :
      p \in { x \in Paths : x = <<>> \/ Rooted(x) }, q \in {"", "q"}, f \in {"", "f"} }

TestPatternSets ==
  { <<>>,
    << <<"/">> >>,
    << <<"*">> >>,
    << <<"/", "a", "/", "*">> >>,
    << <<"/", "a", "/", "**">> >>,
    << <<"/", "a", "/", "*">>, <<"/">> >> }

\* Strings of PageData fields, as sequences of characters.
TestRecords ==
  { [Title |-> <<"a">>, URL |-> <<"u", "1">>, Markdown |-> <<"c">>],
    [Title |-> <<"b">>, URL |-> <<"u", "2">>, Markdown |-> <<"#", "\n", "c">>],
    [Title |-> <<"\"", "a", "\"">>, URL |-> <<"u", "3">>, Markdown |-> <<"<", ">", "&", "'", "\"">>],
    [Title |-> <<>>, URL |-> <<"u", "4">>, Markdown |-> <<>>] }

RecordLists == UNION { [1..k -> TestRecords] : k \in 0..MaxRecords }

\* encoding/json: the characters a string value is written with.
EscapeJSON(c) ==
  IF c = "\"" THEN <<"\\", "\"">>
  ELSE IF c = "\n" THEN <<"\\", "n">>
  ELSE IF c = "<" THEN <<"\\", "u", "0", "0", "3", "c">>
  ELSE IF c = ">" THEN <<"\\", "u", "0", "0", "3", "e">>
  ELSE IF c = "&" THEN <<"\\", "u", "0", "0", "2", "6">>
  ELSE <<c>>

RECURSIVE MarshalString(_)
MarshalString(str) ==
  IF str = <<>> THEN <<>> ELSE EscapeJSON(Head(str)) \o MarshalString(Tail(str))

\* A Go slice: nil, or a sequence of elements.
NilSlice == [nil |-> TRUE, elems |-> <<>>]

\* json.MarshalIndent of a []JSONOutputPage: a nil slice is written as null.
Marshal(pages) ==
  IF pages.nil THEN [kind |-> "null", items |-> <<>>]
  ELSE [kind |-> "array",
        items |-> [i \in 1..Len(pages.elems) |->
                     [title |-> MarshalString(pages.elems[i].Title),
                      url |-> MarshalString(pages.elems[i].URL),
                      content |-> MarshalString(pages.elems[i].Content)]]]

\* The loop that fills jsonOutputPages, which starts as a nil slice.
RECURSIVE AppendOutputPages(_, _)
AppendOutputPages(rs, pages) ==
  IF rs = <<>> THEN pages
  ELSE LET page == [Title |-> Head(rs).Title, URL |-> Head(rs).URL,
                    Content |-> Head(rs).Markdown]
       IN AppendOutputPages(Tail(rs),
                            [nil |-> FALSE, elems |-> Append(pages.elems, page)])

\* Mutant: no special case for an empty result list.
formatResultsAsJSON_NoEmptyCase(rs) ==
  [err |-> "nil", json |-> Marshal(AppendOutputPages(rs, NilSlice))]

formatResultsAsJSON(rs) ==
  IF Len(rs) = 0 THEN [err |-> "nil", json |-> [kind |-> "array", items |-> <<>>]]
  ELSE [err |-> "nil", json |-> Marshal(AppendOutputPages(rs, NilSlice))]

\* The tests start from a crawler that was never built.
FnInit ==
  /\ InitCommon
  /\ signals = 0 /\ lingers = FALSE /\ browserName = "lightpanda"
  /\ pageLimit = 0
  /\ isURLListMode = FALSE
  /\ initialURLs = <<>>
  /\ matchPatterns = <<>>
  /\ followMatchPatterns = <<>>
  /\ site = [p \in SitePages |-> <<>>]

\* The errors fetchPageHTML returns.
FetchErrorKinds ==
  {"pageClosed", "notConnected", "targetClosed", "navFailed", "connRefused",
   "empty", "deadline", "fetchCanceled"}

\* Page URLs of one host: a plain one and two whose path holds a word the
\* caller of fetchPageHTML looks for.
DecisionURLs ==
  { UrlA,
    MkURL("http", "h", <<"/", "Playwright">>, "", ""),
    MkURL("http", "h", <<"/", "net::ERR_CONNECTION_REFUSED">>, "", "") }

\* The same failure, attempt, token and connection state for two page URLs.
TestFetchDecision ==
  /\ call = NoCall
  /\ \E e \in FetchErrorKinds, u1 \in DecisionURLs, u2 \in DecisionURLs,
        att \in 0..maxRetries, tokenDone \in BOOLEAN, connected \in BOOLEAN :
       call' = [fn |-> "fetchDecision",
                in |-> [err |-> e, urls |-> <<u1, u2>>, attempt |-> att,
                        tokenDone |-> tokenDone, connected |-> connected],
                out |-> <<FetchDecision(e, u1, att, tokenDone, connected),
                          FetchDecision(e, u2, att, tokenDone, connected)>>]
  /\ UNCHANGED crawlVars

TestNormalizeURLtoString ==
  /\ call = NoCall
  /\ \E raw \in NormalizeInputs :
       call' = [fn |-> "normalizeURLtoString", in |-> raw,
                out |-> normalizeURLtoString(raw)]
  /\ UNCHANGED crawlVars

TestShouldProcessContent ==
  /\ call = NoCall
  /\ \E patterns \in TestPatternSets, pageURL \in PageURLs :
       call' = [fn |-> "shouldProcessContent",
                in |-> [patterns |-> patterns, pageURL |-> pageURL],
                out |-> shouldProcessContent(patterns, pageURL)]
  /\ UNCHANGED crawlVars

TestFormatResultsAsJSON ==
  /\ call = NoCall
  /\ \E rs \in RecordLists :
       call' = [fn |-> "formatResultsAsJSON", in |-> rs,
                out |-> formatResultsAsJSON(rs)]
  /\ UNCHANGED crawlVars

FnNext ==
  \/ TestFetchDecision
  \/ TestNormalizeURLtoString
  \/ TestShouldProcessContent
  \/ TestFormatResultsAsJSON

FnSpec == FnInit /\ [][FnNext]_vars

\* ------------------------------------------------- claims on the functions
BareFragment(u) ==
  u.scheme = "" /\ u.host = "" /\ u.path = <<>> /\ u.query = "" /\ u.frag # ""

\* C15 as stated: normalizeURLtoString fails for an empty or whitespace-only
\* string, a bare fragment and an unparsable string; for every other input the
\* result has no fragment, path "/" when the URL has a host and an empty
\* path, the path without its trailing slash when the path is longer than 1
\* and ends in "/", the path "/" when it was "/", and the same query.
C15_Original ==
  call.fn = "normalizeURLtoString" =>
    LET raw == call.in
        out == call.out
    IN IF raw.kind \in {"blank", "bad"} \/ BareFragment(raw.u)
       THEN ~out.ok
       ELSE /\ out.ok
            /\ out.url.frag = ""
            /\ (raw.u.host # "" /\ raw.u.path = <<>>) => out.url.path = <<"/">>
            /\ (Len(raw.u.path) > 1 /\ Last(raw.u.path) = "/") =>
                 out.url.path = Front(raw.u.path)
            /\ raw.u.path = <<"/">> => out.url.path = <<"/">>
            /\ out.url.query = raw.u.query

\* The path of a page URL as patterns see it: an empty path is "/".
PagePath(u) == IF u.path = <<>> THEN <<"/">> ELSE u.path

\* C16: shouldProcessContent is true for every path when there is no match
\* pattern; with patterns it is true exactly when one of them matches the
\* page path, an empty path counting as "/"; query and fragment of the page
\* URL make no difference.
C16_ShouldProcess ==
  call.fn = "shouldProcessContent" =>
    LET patterns == call.in.patterns
        pageURL == call.in.pageURL
    IN /\ Len(patterns) = 0 => call.out = TRUE
       /\ Len(patterns) > 0 =>
            (call.out <=> \E i \in 1..Len(patterns) :
                             GlobMatch(patterns[i], PagePath(pageURL)))
       /\ call.out = shouldProcessContent(patterns,
                        [pageURL EXCEPT !.query = "", !.frag = ""])

\* C16 witness: two patterns, a page URL with an empty path, a query and a
\* fragment, accepted through the pattern "/".
C16_Witness ==
  /\ call.fn = "shouldProcessContent"
  /\ Len(call.in.patterns) = 2
  /\ call.in.pageURL.path = <<>>
  /\ call.in.pageURL.query # "" /\ call.in.pageURL.frag # ""
  /\ call.out = TRUE

HasPrefix(s, pre) == Len(s) >= Len(pre) /\ SubSeq(s, 1, Len(pre)) = pre

NoSeparator(s) == \A i \in 1..Len(s) : s[i] # "/"

DirA == <<"/", "a", "/">>

\* C17: "/" separates segments: /a/* matches the paths that go on after /a/
\* within one segment (/a/a, not /a/a/a), /a/** every path that starts with
\* /a/, "/" only the root path, and "*" alone no page path, since every page
\* path contains "/".
C17_GlobSegments ==
  call.fn = "shouldProcessContent" =>
    LET patterns == call.in.patterns
        path == PagePath(call.in.pageURL)
    IN /\ patterns = << <<"/", "a", "/", "*">> >> =>
            (call.out <=> /\ HasPrefix(path, DirA)
                          /\ NoSeparator(SubSeq(path, 4, Len(path))))
       /\ patterns = << <<"/", "a", "/", "**">> >> =>
            (call.out <=> HasPrefix(path, DirA))
       /\ patterns = << <<"/">> >> => (call.out <=> path = <<"/">>)
       /\ patterns = << <<"*">> >> => call.out = FALSE

\* C17 witness: /a/* against /a/a/a is rejected.
C17_Witness ==
  /\ call.fn = "shouldProcessContent"
  /\ call.in.patterns = << <<"/", "a", "/", "*">> >>
  /\ call.in.pageURL.path = <<"/", "a", "/", "a", "/", "a">>
  /\ call.out = FALSE

\* The string a JSON string value stands for.
RECURSIVE UnescapeJSON(_)
UnescapeJSON(t) ==
  IF t = <<>> THEN <<>>
  ELSE IF Head(t) # "\\" THEN <<Head(t)>> \o UnescapeJSON(Tail(t))
  ELSE IF t[2] = "n" THEN <<"\n">> \o UnescapeJSON(SubSeq(t, 3, Len(t)))
  ELSE IF t[2] = "u"
       THEN LET code == SubSeq(t, 3, 6)
                c == IF code = <<"0", "0", "3", "c">> THEN "<"
                     ELSE IF code = <<"0", "0", "3", "e">> THEN ">"
                     ELSE "&"
            IN <<c>> \o UnescapeJSON(SubSeq(t, 7, Len(t)))
  ELSE <<t[2]>> \o UnescapeJSON(SubSeq(t, 3, Len(t)))

\* C18: formatResultsAsJSON returns no error; for an empty list the document
\* is the empty array, otherwise an array with one object per record, in the
\* order of the list, whose title, url and content values stand for the
\* record's Title, URL and Markdown.
C18_JSONArray ==
  call.fn = "formatResultsAsJSON" =>
    LET rs == call.in
        doc == call.out.json
    IN /\ call.out.err = "nil"
       /\ doc.kind = "array"
       /\ Len(doc.items) = Len(rs)
       /\ \A i \in 1..Len(rs) :
            /\ UnescapeJSON(doc.items[i].title) = rs[i].Title
            /\ UnescapeJSON(doc.items[i].url) = rs[i].URL
            /\ UnescapeJSON(doc.items[i].content) = rs[i].Markdown

\* C18 witness: two different records, the first with characters that the
\* encoder escapes.
C18_Witness ==
  /\ call.fn = "formatResultsAsJSON"
  /\ Len(call.in) = 2 /\ call.in[1] # call.in[2]
  /\ "<" \in SeqToSet(call.in[1].Markdown)
  /\ Len(call.out.json.items) = 2
  /\ call.out.json.items[1].content # call.in[1].Markdown

\* ------------------------------------------------- claims on the retry loop
\* The context deadline of fetchPageHTML.
TimeoutClass == {"deadline"}

\* The errors fetchPageHTML marks as a connection issue: page closed, browser
\* not connected, target closed.
ConnectionLayer == {"pageClosed", "notConnected", "targetClosed"}

\* fetchPageHTML returns to the retry loop.
FetchReturns == pc = "select" /\ pc' # "select"

Skippable(e) == ~cancelled /\ browserConnected /\ ~HasCriticalText(e)

SessionUnusable ==
  {"ctxCanceled", "fetchCanceled", "pageClosed", "notConnected", "targetClosed"}

LeavesFailed == pc = "failed" /\ pc' # "failed"

\* C21 as stated: after the retries, a final fetch error that says the session
\* is unusable (cancellation seen, browser disconnected, page, target or
\* browser closed, the pre-check errors included) ends the crawl loop, and no
\* URL is dequeued or fetched after it.
C21_Original ==
  /\ [][(LeavesFailed /\ (cancelled \/ ~browserConnected \/ fetchErr \in SessionUnusable)) =>
          (pc' = "finish" /\ exitReason' = "critical")]_vars
  /\ [][exitReason = "critical" =>
          (dequeued' = dequeued /\ fetched' = fetched /\ calls' = calls)]_vars

\* C22: a fetch failure that is not critical leaves results, visited and the
\* queue as they are and the loop goes on; the failed URL, like every
\* dequeued URL, stays in visited, no URL in visited is queued again, and a
\* fetch is only ever started for the URL dequeued last.
C22_SkipFrame ==
  /\ [][(LeavesFailed /\ Skippable(fetchErr)) =>
          /\ pc' = "loop"
          /\ results' = results /\ visited' = visited
          /\ queue' = queue /\ enqueued' = enqueued
          /\ cur \in visited']_vars
  /\ [][\A u \in SeqToSet(dequeued) : u \in visited']_vars
  /\ [][\A i \in (Len(enqueued) + 1)..Len(enqueued') : enqueued'[i] \notin visited]_vars
  /\ [][calls' = calls + 1 => (dequeued # <<>> /\ cur = Last(dequeued))]_vars
  /\ [](NoDup(dequeued))

\* C22 witness: single URL mode, the fetch of a page was skipped: the loop is
\* back at its top, an allowed link of the page was never queued, another
\* URL waits in the queue and a record was saved before.
C22_Witness ==
  /\ ~isURLListMode /\ pc = "loop" /\ ~cancelled
  /\ cur \in fetched /\ cur \in visited
  /\ queue # <<>> /\ Len(results) >= 1
  /\ \E l \in SeqToSet(extractAndFilterLinks(startURL, followMatchPatterns, cur, PageLinks(cur))) :
       l \notin visited

ProcessStep == pc = "process" /\ pc' # "process"

\* C23: an error of processHTML is never critical: results stays as it is,
\* the loop is not left, and in single URL mode the links of the page are
\* looked at before the next URL is dequeued.
C23_ProcessErrorSkipped ==
  /\ [][(ProcessStep /\ shouldProcessContent(matchPatterns, cur) /\ results' = results) =>
          /\ pc' \in {"links", "loop"}
          /\ exitReason' = exitReason
          /\ (~isURLListMode =>
                /\ pc' = "links"
                /\ links' = extractAndFilterLinks(startURL, followMatchPatterns, cur, html))]_vars
  /\ [][pc = "links" => dequeued' = dequeued]_vars

\* C23 witness: the page matched, processHTML failed, and a link of the page
\* that is not yet in visited is about to be queued.
C23_Witness ==
  /\ pc = "links" /\ ~cancelled
  /\ shouldProcessContent(matchPatterns, cur) /\ cur \notin ResultURLs
  /\ links # <<>> /\ ~IsVisited(Head(links))

C25_OneWayToken ==
  /\ [][cancelled => cancelled']_vars
  /\ [][atCancel.pc # "none" => atCancel' = atCancel]_vars
  /\ [][(cancelled /\ signals' # signals) =>
          UNCHANGED <<cancelled, atCancel, pc, cfgVars, loopVars, fetchVars, outVars,
                      enqueued, dequeued, fetched, calls>>]_vars

\* C25 witness: the first signal cancelled a running fetch, a later signal
\* arrived and waits in sigChan, and the run ended with a record written.
C25_Witness ==
  /\ pc = "done" /\ cancelled /\ atCancel.pc = "select"
  /\ sigChan = 1 /\ signals = 0
  /\ written.called

\* C26: fetchPageHTML tells a cancellation from its deadline.  With no result
\* sent yet, a context done by the cancellation gives the Cancelled error,
\* which is not retried; a context done by the 120s deadline gives the
\* DeadlineExceeded error, which is retried on the first attempt.  Neither
\* error is returned for the other cause.
C26_CancelIsNotTimeout ==
  /\ [][(FetchReturns /\ resultChan = "none" /\ ctxErr = "canceled") =>
          /\ fetchErr' = "fetchCanceled" /\ fetchErr' \notin TimeoutClass
          /\ pc' = "failed" /\ attempt' = attempt]_vars
  /\ [][(FetchReturns /\ resultChan = "none" /\ ctxErr = "deadline") =>
          /\ fetchErr' = "deadline" /\ fetchErr' \in TimeoutClass
          /\ (attempt = 0 => pc' = "attempt" /\ attempt' = 1)]_vars
  /\ [][(FetchReturns /\ fetchErr' = "fetchCanceled") => (cancelled /\ ctxErr = "canceled")]_vars
  /\ [][(FetchReturns /\ fetchErr' = "deadline") => ctxErr = "deadline"]_vars
  /\ [](ctxErr = "canceled" => cancelled)

\* C26 witness: the first fetch of a URL was cancelled and was not retried.
C26_Witness ==
  /\ pc = "failed" /\ fetchErr = "fetchCanceled" /\ attempt = 0 /\ calls = 1
  /\ atCancel.pc = "select"

CtxErrors == {"deadline", "fetchCanceled"}

\* C27: when the deadline or the cancellation wins the select, fetchPageHTML
\* returns an error and no document; the goroutine it leaves behind sends its
\* late result without blocking, and that result is never returned, never
\* appended to results and never seen by a later call.
C27_LateResultDropped ==
  /\ [][(FetchReturns /\ sub = "running") => fetchErr' \in CtxErrors]_vars
  /\ [][(FetchReturns /\ fetchErr' \in CtxErrors) =>
          /\ html' = html /\ results' = results
          /\ pc' \in {"attempt", "failed"}
          /\ resultChan' = "none"]_vars
  /\ [][(stale = "running" /\ stale' # "running") =>
          /\ stale' = "none"
          /\ UNCHANGED <<pc, loopVars, fetchVars, outVars>>]_vars
  /\ [](stale # "blocked")

\* C27 witness: the only fetch of a URL was cancelled while its goroutine was
\* navigating; fetchPageHTML returned the error and the goroutine still runs.
C27_Witness ==
  /\ pc = "failed" /\ fetchErr = "fetchCanceled" /\ calls = 1
  /\ stale = "running" /\ sub = "idle"

\* C28 as stated: the page is never used by two goroutines of fetchPageHTML
\* at the same time.
C28_Original == ~(stale = "running" /\ sub = "running")

\* C29 as stated: the deferred functions close the page and the connection
\* only after the loop was left, and only when no goroutine of fetchPageHTML
\* still uses the page.
C29_Original ==
  /\ [][(teardown' # teardown /\ pc' # "fatal") =>
          (pc = "output" /\ sub = "idle" /\ stale # "running")]_vars
  /\ []((teardown # <<>> /\ pc # "fatal") => pc = "done")

CloseOrder == <<"page", "context", "browser", "driver", "process">>

Rank(s) == CHOOSE i \in 1..Len(CloseOrder) : CloseOrder[i] = s

\* C30: however the loop was left (queue empty, page limit, critical error,
\* cancellation), the deferred functions run once, after Crawl's output: the
\* page (unless it is closed already), the browser context, the browser
\* connection HandleScraping holds (Chromium), the Playwright driver, the
\* Lightpanda process, in this order and each once, also when a close fails.
C30_TeardownOnce ==
  /\ [](pc \notin {"done", "fatal"} => teardown = <<>>)
  /\ [][teardown # <<>> => teardown' = teardown]_vars
  /\ [](pc = "done" =>
          /\ \A i, j \in 1..Len(teardown) : i < j => Rank(teardown[i]) < Rank(teardown[j])
          /\ {"context", "driver"} \subseteq SeqToSet(teardown)
          /\ ("page" \in SeqToSet(teardown) <=> ~pageClosed)
          /\ ("process" \in SeqToSet(teardown) <=> browserName = "lightpanda")
          /\ ("browser" \in SeqToSet(teardown) <=> (browserName = "chromium" /\ browserConnected))
          /\ exitReason \in {"none", "empty", "limit", "critical", "cancel"})

\* C30 witness: the loop was left by a critical error with the page open, and
\* the four closes of a Lightpanda session were made.
C30_Witness ==
  /\ pc = "done" /\ exitReason = "critical" /\ ~cancelled
  /\ teardown = <<"page", "context", "driver", "process">>

\* ---------------------------------------------------------------------
\* claims C31..C39

\* a is a subsequence of b: the elements of a occur in b in the same order.
RECURSIVE IsSubSeq(_, _)
IsSubSeq(a, b) ==
  IF a = <<>> THEN TRUE
  ELSE IF b = <<>> THEN FALSE
  ELSE IF Head(a) = Head(b) THEN IsSubSeq(Tail(a), Tail(b))
  ELSE IsSubSeq(a, Tail(b))

ResultURLSeq == [i \in 1..Len(results) |-> results[i].URL]

\* C33: the queue never holds the same URL twice and every queued URL is
\* already in visited; a link is marked visited in the step that queues it,
\* so a canonical target met again (on the same page or on a later one) is
\* not queued a second time.
C33_QueueNoDup ==
  /\ NoDup(queue)
  /\ SeqToSet(queue) \subseteq visited
  /\ NoDup(enqueued)

\* A link whose canonical target is still waiting in the queue is met again.
C33_Witness ==
  /\ pc = "links"
  /\ links # <<>>
  /\ Head(links) \in SeqToSet(queue)
  /\ Len(dequeued) >= 2

\* C34: visited is at least as large as the queue plus the URLs dequeued so
\* far, and no step removes a URL from visited.
C34_VisitedCoversQueue ==
  /\ [](Cardinality(visited) >= Len(queue) + Len(dequeued))
  /\ [][visited \subseteq visited']_vars

\* Several URLs were dequeued, one failed and was skipped, others wait.
C34_Witness ==
  /\ Len(dequeued) >= 2
  /\ Len(queue) >= 1
  /\ anyFailure
  /\ Cardinality(visited) = Len(queue) + Len(dequeued)

\* C36: URLs leave the queue in the order in which they entered it, and the
\* URLs of the records in results, in order, are a subsequence of the
\* dequeue order.
C36_FIFO ==
  /\ enqueued = dequeued \o queue
  /\ IsSubSeq(ResultURLSeq, dequeued)

\* Three URLs were dequeued, the middle one produced no record.
C36_Witness ==
  /\ Len(dequeued) >= 3
  /\ Len(results) = 2
  /\ results[1].URL = dequeued[1]
  /\ results[2].URL = dequeued[3]

\* The canonical form of the claim: no fragment, and no "/" at the end of a
\* path other than "/".
Canonical(u) ==
  /\ u.frag = ""
  /\ (u.path # <<>> /\ Last(u.path) = "/") => u.path = <<"/">>

C38_Original ==
  /\ NoDup(ResultURLSeq)
  /\ ResultURLs \subseteq (SeqToSet(dequeued) \cap fetched)
  /\ \A u \in ResultURLs :
       Canonical(u) /\ normalizeURLtoString(Str(u)) = [ok |-> TRUE, url |-> u]

\* C39 as stated: for the same kind of failure, the same attempt and the
\* same token and browser-connection state, the retry decision and the
\* critical classification are the same whatever the text of the URL.
C39_Original ==
  call.fn = "fetchDecision" => call.out[1] = call.out[2]

Reverse(s) == [i \in 1..Len(s) |-> s[Len(s) + 1 - i]]

\* The resources the program holds when the given step of session creation
\* fails, in the order in which it acquired them.
AcquiredBefore(stage) ==
  (IF browserName = "lightpanda" THEN <<"process">> ELSE <<>>)
    \o <<"driver", "browser">>
    \o (IF stage \in {"page", "blank", "title"} THEN <<"context">> ELSE <<>>)
    \o (IF stage \in {"blank", "title"} THEN <<"page">> ELSE <<>>)

\* C31 as stated: when session creation fails at the context, the page, the
\* blank-page navigation or the title probe, every resource acquired so far
\* has been released, the most recent first, when the run ends, and no crawl
\* was started.
C31_Original ==
  (pc = "fatal" /\ initErr \in {"context", "page", "blank", "title"}) =>
    /\ teardown = Reverse(AcquiredBefore(initErr))
    /\ enqueued = <<>> /\ calls = 0 /\ ~written.called

\* C32: with Lightpanda the connection (NewCrawlerForLightpanda) is attempted
\* only once a dial to the port of the spawned process has succeeded; the
\* not-ready error is returned only after every dial of the bounded wait was
\* refused, and by then the process has been killed and waited for; no
\* crawler is made after it.
C32_PortBeforeConnect ==
  /\ []((browserName = "lightpanda"
          /\ (pc \notin {"launch", "waitPort", "fatal"}
                \/ initErr \in {"run", "parse"} \cup InitStages)) => portOpen)
  /\ [][initErr' = "notReady" =>
          \/ initErr = "notReady"
          \/ /\ pc = "waitPort" /\ polls = MaxPolls
             /\ pc' = "fatal" /\ teardown' = <<"process">>]_vars
  /\ []((pc = "fatal" /\ initErr = "notReady") =>
          /\ teardown = <<"process">>
          /\ startURL = NoURL /\ enqueued = <<>> /\ calls = 0)

\* The port stayed closed through the whole wait and the launch failed.
C32_Witness ==
  /\ pc = "fatal" /\ initErr = "notReady"
  /\ ~portOpen /\ polls = MaxPolls
  /\ teardown = <<"process">>

\* C37: once the crawl loop is entered it is left after finitely many steps
\* and the run goes on to the output of the results and to the return of
\* Crawl, whatever the fetches do (success, skipped failure, critical
\* failure) and whenever a cancellation arrives.
C37_CrawlTerminates ==
  (pc = "loop") ~> (pc = "done" /\ returned = "nil")

\* The run ended after a skipped failure, successful fetches and a
\* cancellation that arrived while links were queued.
C37_Witness ==
  /\ pc = "done"
  /\ anyFailure /\ Len(results) >= 1
  /\ cancelled /\ atCancel.pc = "links"

====
